---- MODULE Spec2Model ----
(***************************************************************************)
(* Batch mastering pipeline: the worker threads of the four tools of the   *)
(* repository and the window that starts and cancels them.                 *)
(*                                                                         *)
(*   "pro"   ProfessionalProcessingThread   src/unnamed/part_000           *)
(*   "vocal" VocalProcessingThread          src/星TAP人声自动增强2.0.py    *)
(*   "bgm25" BGMMusicMasteringThread        src/背景音乐动态压缩2.5...py   *)
(*   "bgm27" ProcessingThread               src/背景音乐动态压缩2.7...py   *)
(*                                                                         *)
(* Spec   : one worker thread object, its run() loop taken one engine call *)
(*          at a time, the disk it writes, the events it emits, and stop() *)
(*          called from outside at any moment.                             *)
(* SpecUI : the window (buttons, the processing_thread reference, queued   *)
(*          signals) together with the worker threads it creates.          *)
(***************************************************************************)
EXTENDS Integers, Sequences, FiniteSets, TLC

\* ------------------------------------------------------------------ bounds
NumFiles == 2

Files == 1..NumFiles

Variants == {"pro", "vocal", "bgm25", "bgm27"}

\* bgm25 only: which branch of run() the check boxes select
CompressModes == {"smart", "traditional", "off"}

\* ------------------------------------------------------------ the disk
Absent == [exists |-> FALSE, size |-> 0]

OnDisk(n) == [exists |-> TRUE, size |-> n]

\* sizes the engine is taken to write for the intermediate (around the floor)
TempSizes == {500, 1023, 1024}

\* ------------------------------------------------- per-variant constants
\* subprocess.run(..., timeout=...) of each engine call, 0 when the call
\* passes no timeout
TimeoutSec(v, call) ==
    CASE v = "pro" ->
           (CASE call = "probe" -> 0
              [] call \in {"loudness", "dynamics", "voice", "perceived"} -> 60
              [] OTHER -> 600)
      [] v = "vocal" ->
           (CASE call = "probe" -> 0
              [] call \in {"loudness", "dynamics"} -> 30
              [] call = "highfreq" -> 20
              [] OTHER -> 300)
      [] OTHER -> 0

HasTimeout(v, call) == TimeoutSec(v, call) > 0

\* os.path.getsize(temp_wav) < 1024 ; 0 when the variant has no such check
IntermediateFloor(v) == IF v \in {"pro", "vocal"} THEN 1024 ELSE 0

ValidatesIntermediate(v) == v \in {"pro", "vocal"}

\* os.path.getsize(output_path) < 8 * 1024 (10 * 1024 in bgm27)
OutputFloor(v) ==
    CASE v \in {"pro", "vocal"} -> 8 * 1024
      [] v = "bgm27" -> 10 * 1024
      [] OTHER -> 0

ValidatesOutput(v) == v \in {"pro", "vocal", "bgm27"}

\* sizes the engine is taken to write for the final output
OutSizes(v) == IF ValidatesOutput(v) THEN {OutputFloor(v) - 1, OutputFloor(v)} ELSE {8 * 1024}

\* if not os.path.exists(input_path): raise FileNotFoundError
ChecksInput(v) == v \in {"pro", "vocal"}

\* the worker has an abort flag that something can set (stop())
HasStop(v) == v \in {"pro", "vocal"}

\* the analysis passes, in call order
AnalysisPasses(v, mode) ==
    CASE v = "pro" -> <<"probe", "loudness", "dynamics", "voice", "perceived">>
      [] v = "vocal" -> <<"probe", "loudness", "dynamics", "highfreq">>
      [] v = "bgm27" -> <<"probe", "dynamics", "loudness">>
      [] v = "bgm25" ->
           (CASE mode = "smart" -> <<"dynamics", "transient", "loudness">>
              [] mode = "traditional" -> <<"dynamics">>
              [] OTHER -> <<>>)

\* ways one engine call can end:
\*   ok       ran, the marker lines are there and parse
\*   nonzero  ran, exit code # 0, no marker line
\*   nolines  ran, exit code 0, no marker line
\*   garbled  ran, a marker line is there, its number does not parse
\*   oserror  subprocess.run raised (the engine could not be run)
\*   timeout  subprocess.TimeoutExpired, only where a timeout is passed
Outcomes(v, call) ==
    {"ok", "nonzero", "nolines", "garbled", "oserror"}
        \cup (IF HasTimeout(v, call) THEN {"timeout"} ELSE {})

\* ------------------------------------------------------ feature extraction
Abs(x) == IF x < 0 THEN -x ELSE x

Min2(a, b) == IF a < b THEN a ELSE b

\* what the engine reports for a readable input (one sample measurement;
\* transient_pct: the share of PeakFactor frames above 6, in percent)
Measured ==
    [bitrate |-> 128, sample_rate |-> 48000, duration |-> 30, loudness |-> -23,
     max |-> -3, min |-> -50, mean |-> -18, high_freq |-> -9, transient_pct |-> 50]

\* the analysis dict as first built (pro); the other tools fill theirs pass by pass
InitialAnalysis(v) ==
    IF v = "pro"
    THEN [bitrate |-> 192, sample_rate |-> 44100, channels |-> 2, duration |-> 0,
          loudness |-> -20, dynamic_range |-> 12, noise_floor |-> -60,
          high_freq_energy |-> -20, volume_level |-> 0]
    ELSE << >>

\* the keys of the dict the analysis returns
AnalysisFields(v, mode) ==
    CASE v = "pro" -> {"bitrate", "sample_rate", "channels", "duration", "loudness",
                       "dynamic_range", "noise_floor", "high_freq_energy", "volume_level"}
      [] v = "vocal" -> {"bitrate", "loudness", "dynamic_range", "noise_floor", "high_freq_energy"}
      [] v = "bgm27" -> {"bitrate", "dynamic_range", "loudness"}
      [] v = "bgm25" ->
           (CASE mode = "smart" -> {"dynamic_range", "attack", "release", "transient_ratio", "loudness"}
              [] mode = "traditional" -> {"dynamic_range"}
              [] OTHER -> {})

\* a pass either delivers its measurement, falls back to its default, or raises
PassEffect(v, call, outcome) ==
    CASE v = "pro" ->
           (CASE call = "probe" /\ outcome = "oserror" -> "raise"
              [] outcome = "ok" -> "measured"
              [] OTHER -> "default")
      [] v = "vocal" ->
           (CASE call = "probe" /\ outcome = "oserror" -> "raise"
              [] call \in {"loudness", "dynamics"} /\ outcome \in {"oserror", "timeout"} -> "raise"
              [] outcome = "ok" -> "measured"
              [] OTHER -> "default")
      [] v = "bgm27" ->
           (CASE outcome = "oserror" -> "raise"
              [] call \in {"dynamics", "loudness"} /\ outcome = "garbled" -> "raise"
              [] outcome = "ok" -> "measured"
              [] OTHER -> "default")
      [] v = "bgm25" ->
           (CASE outcome = "oserror" -> "raise"
              [] call = "dynamics" /\ outcome = "garbled" -> "raise"
              [] outcome = "ok" -> "measured"
              [] OTHER -> "default")

\* max/min/mean volume a level-envelope pass ends with
VolumeStats(v, effect) ==
    IF effect = "measured" THEN [max |-> Measured.max, min |-> Measured.min, mean |-> Measured.mean]
    ELSE CASE v = "pro" -> [max |-> -10, min |-> -60, mean |-> -20]
           [] v = "bgm25" -> [max |-> -10, min |-> -30, mean |-> -20]
           [] OTHER -> [max |-> -10, min |-> -40, mean |-> -20]

\* a with the keys of upd set (dict update)
Update(a, upd) ==
    [k \in (DOMAIN a) \cup (DOMAIN upd) |-> IF k \in DOMAIN upd THEN upd[k] ELSE a[k]]

\* the analysis after one pass that did not raise
ApplyPass(v, call, outcome, a) ==
    LET eff == PassEffect(v, call, outcome)
        st == VolumeStats(v, eff)
    IN CASE call = "probe" ->
              (IF v = "pro"
               THEN (IF eff = "measured"
                     THEN Update(a, [bitrate |-> Measured.bitrate,
                                     sample_rate |-> Measured.sample_rate,
                                     duration |-> Measured.duration])
                     ELSE a)
               ELSE Update(a, [bitrate |-> IF eff = "measured"
                                           THEN Min2(Measured.bitrate, 320) ELSE 192]))
         [] call = "loudness" ->
              Update(a, [loudness |-> IF eff = "measured" THEN Measured.loudness ELSE -20])
         [] call = "dynamics" ->
              (IF v \in {"pro", "vocal"}
               THEN Update(a, [dynamic_range |-> Abs(st.max - st.min), noise_floor |-> st.min])
               ELSE IF v = "bgm25" /\ outcome = "nonzero"
                    THEN Update(a, [dynamic_range |-> 15])
                    ELSE Update(a, [dynamic_range |-> Abs(st.max - st.min)]))
         [] call = "voice" -> Update(a, [high_freq_energy |-> st.max])
         [] call = "perceived" -> Update(a, [volume_level |-> st.mean])
         [] call = "highfreq" ->
              Update(a, [high_freq_energy |-> IF eff = "measured" THEN Measured.high_freq ELSE -20])
         [] call = "transient" ->
              LET pct == IF eff = "measured" THEN Measured.transient_pct ELSE 30
              IN Update(a, [transient_ratio |-> pct,
                            attack |-> IF pct > 40 THEN 5 ELSE 30,
                            release |-> IF pct > 40 THEN 200 ELSE 500])
         [] OTHER -> a

\* ------------------------------------------------------ failure messages
\* result.stderr[:200] (result.stderr[:100] in bgm27)
TruncLen(v) == IF v = "bgm27" THEN 100 ELSE 200

\* lengths of the text the engine leaves on its error stream when it fails
StderrLens == {150, 250}

NoException == [stage |-> "none", excerpt |-> 0, command |-> FALSE]

NoMessage == [name |-> FALSE, stage |-> "none", excerpt |-> 0, command |-> FALSE]

\* str(e) of the exception raised at each place, by its parts:
\*   stage    the stage the text names, "none" when it names none
\*   excerpt  how many characters of the engine's error stream it holds
\*   command  whether it holds the whole command line (subprocess.TimeoutExpired)
ExcMessage(v, stage, reason, n) ==
    CASE reason = "nonzero" ->
           [stage |-> stage, excerpt |-> Min2(n, TruncLen(v)), command |-> FALSE]
      [] reason = "invalid" -> [stage |-> stage, excerpt |-> 0, command |-> FALSE]
      [] reason = "InputMissing" -> NoException
      [] stage = "Analyzing" /\ v \in {"pro", "vocal"} ->
           [stage |-> "Analyzing", excerpt |-> 0, command |-> (reason = "timeout")]
      [] OTHER -> [stage |-> "none", excerpt |-> 0, command |-> (reason = "timeout")]

\* error.emit(f"{filename} 处理失败：{str(e)}"); bgm25 emits f"处理失败：{str(e)}"
ErrorPayload(v, e) ==
    [name |-> (v # "bgm25"), stage |-> e.stage, excerpt |-> e.excerpt, command |-> e.command]

\* ------------------------------------------------------------ the worker
VARIABLES
    variant,    \* which tool's worker this is
    mode,       \* bgm25: compress_enabled / use_smart_compress
    test_mode,  \* bgm25: test_mode
    pc,         \* where run() stands
    idx,        \* the loop variable of enumerate(file_list, 1)
    pass,       \* analysis: which pass is in flight
    analysis,   \* the analysis dict of the current file
    measured,   \* the passes of the current file that delivered a measurement
    err,        \* the exception that ended the current file's run
    trace,      \* the stages the current file's run has entered
    temp,       \* disk: the scratch file of each input
    out,        \* disk: the output file of each input
    abort,      \* self.abort (not self.running in bgm25)
    events,     \* the signals emitted so far
    stopAt,     \* where run() stood when stop() was called
    exc,        \* str(e) of the exception that ended the current file's run
    message,    \* the payload of the error signal emitted for the current file
    ui,         \* the window: process_btn, cancel_btn, processing_thread, blocked in wait()
    workers,    \* the window's view: every thread object it has created
    queue,      \* signals emitted by the threads, not yet handled by the window
    file_list,  \* the window: self.file_list
    op,         \* the function applied last (SpecFn)
    fs,         \* the analysis dict handed to it
    intent,     \* the user's settings handed to it
    score,      \* calculate_quality_score: the value returned
    params,     \* get_*_output_params: the dict returned
    filters,    \* build_*_chain: the list `filters`, one element per stage
    chain,      \* build_*_chain: the text returned
    raised      \* build_*_chain: the exception raised, "none" if it returned

vars == <<variant, mode, test_mode, pc, idx, pass, analysis, measured, err, trace, temp, out,
          abort, events, stopAt, exc, message>>

uivars == <<ui, workers, queue, file_list>>

fnvars == <<op, fs, intent, score, params, filters, chain, raised>>

\* the thread objects the window can create in one session
WorkerIds == {1, 2}

NoThread == 0

Unborn == [pc |-> "unborn", idx |-> 0, abort |-> FALSE]

\* the window after init_ui(): files are listed, nothing is running
WindowIdle ==
    /\ ui = [process_btn |-> TRUE, cancel_btn |-> FALSE, thread |-> NoThread, waiting |-> NoThread]
    /\ workers = [w \in WorkerIds |-> Unborn]
    /\ queue = << >>
    /\ file_list = << >>

NoError == [stage |-> "none", reason |-> "none"]

NoStop == [idx |-> 0, pc |-> "none"]

\* the analysis dict before any pass has measured anything (part_000's defaults;
\* attack and release are what detect_transient returns when it finds nothing)
DefaultFeatures ==
    [format |-> ".mp3", is_lossless |-> FALSE, bitrate |-> 192, sample_rate |-> 44100,
     loudness |-> -20, dynamic_range |-> 12, noise_floor |-> -60, high_freq_energy |-> -20,
     attack |-> 30, release |-> 500]

\* the settings the window starts with. Names of the combo box entries:
\*   pro   preset           general / news / documentary / advertisement
\*         noise_reduction  light / middle / heavy (the entry up to its bracket)
\*   vocal scene_mode       spoken / emotional / narration
\*         sound_field      original / slight / broadcast
\*   bgm27 sound_field      original / slight / wide
\*   bgm25 pan_type         default / wide / extra_wide
DefaultIntent(v) ==
    CASE v = "pro" ->
           [preset |-> "general", voice_clarity |-> 3, warmth_level |-> 3,
            reverb_amount |-> 2, noise_reduction |-> "middle"]
      [] v = "vocal" ->
           [scene_mode |-> "spoken", voice_clarity_level |-> 3, deesser_on |-> TRUE,
            sound_field |-> "slight", denoise_level |-> "middle"]
      [] v = "bgm27" ->
           [use_compress |-> FALSE, sound_field |-> "slight", avoid_vocal |-> TRUE]
      [] OTHER ->
           [pan_type |-> "default", eq_enabled |-> FALSE, eq_freq |-> 2000, eq_gain |-> -6,
            compress |-> "smart"]

NoParams == [codec |-> "none", ext |-> "none", bitrate |-> 0, is_video |-> FALSE]

\* no function has been applied yet
NoCall ==
    /\ op = "none"
    /\ fs = DefaultFeatures
    /\ intent = DefaultIntent(variant)
    /\ score = 0
    /\ params = NoParams
    /\ filters = << >>
    /\ chain = << >>
    /\ raised = "none"

Init ==
    /\ variant \in Variants
    /\ mode \in (IF variant = "bgm25" THEN CompressModes ELSE {"off"})
    /\ test_mode \in (IF variant = "bgm25" THEN BOOLEAN ELSE {FALSE})
    /\ pc = "loop"
    /\ idx = 1
    /\ pass = 0
    /\ analysis = << >>
    /\ measured = {}
    /\ err = NoError
    /\ trace = << >>
    /\ temp \in [Files -> {Absent, OnDisk(1024)}]
    /\ out = [f \in Files |-> Absent]
    /\ abort = FALSE
    /\ events = << >>
    /\ stopAt = NoStop
    /\ exc = NoException
    /\ message = NoMessage
    /\ WindowIdle
    /\ NoCall

\* mutant: the loop never looks at the flag
AbortIgnored(v, a) == FALSE

\* `if self.abort:` / `if not self.running:` at the top of the loop body
AbortObserved(v, a) == v # "bgm27" /\ a

\* mutant: every tool leaves the loop with `break` and emits all_finished
AfterAbortBreaks(v) == "finished"

\* what the loop does on an observed abort: `return` after the log line, or
\* `break`, which falls through to all_finished.emit()
AfterAbort(v) == IF v = "bgm25" THEN "finished" ELSE "aborted"

\* mutant: no finally block, the scratch file stays
CleanupSkipped(t, f) == t

\* the `finally:` of the two-phase function: os.remove(temp) when it exists
Cleanup(t, f) == [t EXCEPT ![f] = Absent]

\* "clean old files" at the head of the two-phase function
PreClean(v, d, f, which) ==
    CASE v = "pro" -> [d EXCEPT ![f] = Absent]
      [] v = "vocal" /\ which = "temp" -> [d EXCEPT ![f] = Absent]
      [] OTHER -> d

\* not os.path.exists(temp_wav) or os.path.getsize(temp_wav) < 1024 raises
IntermediateValid(v, file) == file.exists /\ ~(file.size < IntermediateFloor(v))

\* not os.path.exists(output_path) or os.path.getsize(output_path) < floor raises
OutputValid(v, file) == file.exists /\ ~(file.size < OutputFloor(v))

\* what the preprocessing call can leave at the scratch path
TempWritten(o, before) ==
    CASE o = "ok" -> {Absent} \cup {OnDisk(n) : n \in TempSizes}
      [] o = "oserror" -> {before}
      [] OTHER -> {before, OnDisk(500)}

\* what the encoding call can leave at the output path
OutWritten(v, o, before) ==
    CASE o = "ok" -> {Absent} \cup {OnDisk(n) : n \in OutSizes(v)}
      [] o = "oserror" -> {before}
      [] OTHER -> {before, OnDisk(500)}

\* ways the preprocessing or encoding call can end
RunOutcomes(v, call) ==
    {"ok", "nonzero", "oserror"} \cup (IF HasTimeout(v, call) THEN {"timeout"} ELSE {})

\* mutant: the share of the batch still to do
ProgressRemaining(i, total) == ((total - i) * 100) \div total

\* int(idx / total * 100)
Progress(i, total) == (i * 100) \div total

Passes == AnalysisPasses(variant, mode)

Emit(e) == events' = Append(events, e)

\* the exception leaves the try body of run(): the current file's run has failed
Fail(stage, reason) ==
    /\ pc' = "failed"
    /\ err' = [stage |-> stage, reason |-> reason]
    /\ trace' = Append(trace, "Failed")
    /\ \E n \in StderrLens : exc' = ExcMessage(variant, stage, reason, n)

\* mutant: the loop ends one file early
LoopOverEarly(i) == i >= NumFiles

\* for idx, input_path in enumerate(self.file_list, start=1): the list is used up
LoopOver(i) == i > NumFiles

\* run(): the for statement, the abort check, and the start of the analysis
\* up to its first engine call
LoopTop ==
    /\ pc = "loop"
    /\ UNCHANGED <<uivars, fnvars>>
    /\ UNCHANGED <<variant, mode, test_mode, idx, temp, out, abort, stopAt, message>>
    /\ IF LoopOver(idx)
       THEN /\ Emit(<<"all_finished", 0>>)
            /\ pc' = "finished"
            /\ UNCHANGED <<pass, analysis, measured, err, exc, trace>>
       ELSE IF AbortObserved(variant, abort)
       THEN /\ pc' = AfterAbort(variant)
            /\ Emit(IF AfterAbort(variant) = "aborted"
                    THEN <<"log_terminated", idx>> ELSE <<"all_finished", 0>>)
            /\ UNCHANGED <<pass, analysis, measured, err, exc, trace>>
       ELSE \E inputExists \in BOOLEAN :
              /\ UNCHANGED events
              /\ IF ChecksInput(variant) /\ ~inputExists
                 THEN /\ pc' = "failed"
                      /\ err' = [stage |-> "Analyzing", reason |-> "InputMissing"]
                      /\ exc' = ExcMessage(variant, "Analyzing", "InputMissing", 0)
                      /\ trace' = <<"Analyzing", "Failed">>
                      /\ UNCHANGED <<pass, analysis, measured>>
                 ELSE /\ analysis' = InitialAnalysis(variant)
                      /\ measured' = {}
                      /\ err' = NoError
                      /\ exc' = NoException
                      /\ IF Len(Passes) > 0
                         THEN /\ pc' = "analyzing"
                              /\ pass' = 1
                              /\ trace' = <<"Analyzing">>
                         ELSE /\ pc' = "deciding"
                              /\ pass' = 0
                              /\ trace' = <<"Deciding">>

\* the analysis pass in flight returns (or raises); the next one is issued
AnalysisReturns ==
    /\ pc = "analyzing"
    /\ UNCHANGED <<uivars, fnvars>>
    /\ UNCHANGED <<variant, mode, test_mode, idx, temp, out, abort, events, stopAt, message>>
    /\ \E o \in Outcomes(variant, Passes[pass]) :
         IF PassEffect(variant, Passes[pass], o) = "raise"
         THEN /\ Fail("Analyzing", o)
              /\ UNCHANGED <<pass, analysis, measured>>
         ELSE /\ analysis' = ApplyPass(variant, Passes[pass], o, analysis)
              /\ measured' = IF PassEffect(variant, Passes[pass], o) = "measured"
                              THEN measured \cup {Passes[pass]} ELSE measured
              /\ UNCHANGED <<err, exc>>
              /\ IF pass < Len(Passes)
                 THEN /\ pass' = pass + 1
                      /\ UNCHANGED <<pc, trace>>
                 ELSE /\ pass' = 0
                      /\ pc' = "deciding"
                      /\ trace' = Append(trace, "Deciding")

\* the filter chain and the output parameters are built, the two-phase function
\* is entered: old files removed, the preprocessing call issued
Decide ==
    /\ pc = "deciding"
    /\ UNCHANGED <<uivars, fnvars>>
    /\ UNCHANGED <<variant, mode, test_mode, idx, pass, analysis, measured, err, exc, abort, events, stopAt, message>>
    /\ IF test_mode
       THEN /\ pc' = "done"
            /\ trace' = Append(trace, "Done")
            /\ UNCHANGED <<temp, out>>
       ELSE /\ pc' = "preprocessing"
            /\ trace' = Append(trace, "Preprocessing")
            /\ temp' = PreClean(variant, temp, idx, "temp")
            /\ out' = PreClean(variant, out, idx, "out")

\* the preprocessing call returns or raises
PreReturns ==
    /\ pc = "preprocessing"
    /\ UNCHANGED <<uivars, fnvars>>
    /\ UNCHANGED <<variant, mode, test_mode, idx, pass, analysis, measured, out, abort, events, stopAt, message>>
    /\ \E o \in RunOutcomes(variant, "pre") :
       \E written \in TempWritten(o, temp[idx]) :
         IF o = "ok"
         THEN /\ temp' = [temp EXCEPT ![idx] = written]
              /\ UNCHANGED <<err, exc>>
              /\ IF ValidatesIntermediate(variant)
                 THEN /\ pc' = "validating_intermediate"
                      /\ trace' = Append(trace, "ValidatingIntermediate")
                 ELSE /\ pc' = "encoding"
                      /\ trace' = Append(trace, "Encoding")
         ELSE /\ Fail("Preprocessing", o)
              /\ temp' = Cleanup([temp EXCEPT ![idx] = written], idx)

\* mutant: an invalid intermediate sends the run back to preprocessing
ValidateIntermediateRetries ==
    /\ pc = "validating_intermediate"
    /\ UNCHANGED <<uivars, fnvars>>
    /\ UNCHANGED <<variant, mode, test_mode, idx, pass, analysis, measured, out, abort, events, stopAt, message>>
    /\ UNCHANGED <<temp, err, exc>>
    /\ IF IntermediateValid(variant, temp[idx])
       THEN /\ pc' = "encoding"
            /\ trace' = Append(trace, "Encoding")
       ELSE /\ pc' = "preprocessing"
            /\ trace' = Append(trace, "Preprocessing")

\* the existence and size check of the intermediate; the encoding call is issued
ValidateIntermediate ==
    /\ pc = "validating_intermediate"
    /\ UNCHANGED <<uivars, fnvars>>
    /\ UNCHANGED <<variant, mode, test_mode, idx, pass, analysis, measured, out, abort, events, stopAt, message>>
    /\ IF IntermediateValid(variant, temp[idx])
       THEN /\ pc' = "encoding"
            /\ trace' = Append(trace, "Encoding")
            /\ UNCHANGED <<temp, err, exc>>
       ELSE /\ Fail("Preprocessing", "invalid")
            /\ temp' = Cleanup(temp, idx)

\* the encoding call returns or raises
EncReturns ==
    /\ pc = "encoding"
    /\ UNCHANGED <<uivars, fnvars>>
    /\ UNCHANGED <<variant, mode, test_mode, idx, pass, analysis, measured, abort, events, stopAt, message>>
    /\ \E o \in RunOutcomes(variant, "enc") :
       \E written \in OutWritten(variant, o, out[idx]) :
         /\ out' = [out EXCEPT ![idx] = written]
         /\ IF o = "ok"
            THEN IF ValidatesOutput(variant)
                 THEN /\ pc' = "validating_output"
                      /\ trace' = Append(trace, "ValidatingOutput")
                      /\ UNCHANGED <<temp, err, exc>>
                 ELSE /\ pc' = "done"
                      /\ trace' = Append(trace, "Done")
                      /\ temp' = Cleanup(temp, idx)
                      /\ UNCHANGED <<err, exc>>
            ELSE /\ Fail("Encoding", o)
                 /\ temp' = Cleanup(temp, idx)

\* the existence and size check of the output; the function returns
ValidateOutput ==
    /\ pc = "validating_output"
    /\ UNCHANGED <<uivars, fnvars>>
    /\ UNCHANGED <<variant, mode, test_mode, idx, pass, analysis, measured, out, abort, events, stopAt, message>>
    /\ temp' = Cleanup(temp, idx)
    /\ IF OutputValid(variant, out[idx])
       THEN /\ pc' = "done"
            /\ trace' = Append(trace, "Done")
            /\ UNCHANGED <<err, exc>>
       ELSE Fail("Encoding", "invalid")

\* mutant: the except clause returns, a failed file ends the batch
AfterResultStopsOnError(p) == IF p = "failed" THEN "finished" ELSE "progress"

\* where run() goes after the result signal: both the try body and the except
\* clause fall through to the progress signal
AfterResult(p) == "progress"

\* file_processed.emit(input_path, output_path) or error.emit(message)
EmitResult ==
    /\ pc \in {"done", "failed"}
    /\ UNCHANGED <<uivars, fnvars>>
    /\ UNCHANGED <<variant, mode, test_mode, idx, pass, analysis, measured, err, trace, temp, out,
                   abort, stopAt, exc>>
    /\ Emit(<<IF pc = "done" THEN "file_processed" ELSE "error", idx>>)
    /\ message' = (IF pc = "failed" THEN ErrorPayload(variant, exc) ELSE NoMessage)
    /\ pc' = AfterResult(pc)

\* progress_updated.emit(...); the loop goes to the next file
EmitProgress ==
    /\ pc = "progress"
    /\ UNCHANGED <<uivars, fnvars>>
    /\ UNCHANGED <<variant, mode, test_mode, temp, out, abort, stopAt>>
    /\ Emit(<<"progress", Progress(idx, NumFiles)>>)
    /\ exc' = NoException
    /\ message' = NoMessage
    /\ idx' = idx + 1
    /\ pc' = "loop"
    /\ pass' = 0
    /\ analysis' = << >>
    /\ measured' = {}
    /\ err' = NoError
    /\ trace' = << >>

\* stop(), called by the window while the thread runs
Stop ==
    /\ HasStop(variant)
    /\ UNCHANGED <<uivars, fnvars>>
    /\ pc \notin {"finished", "aborted"}
    /\ ~abort
    /\ abort' = TRUE
    /\ stopAt' = [idx |-> idx, pc |-> pc]
    /\ UNCHANGED <<variant, mode, test_mode, pc, idx, pass, analysis, measured, err, trace, temp, out,
                   events, exc, message>>

Next ==
    \/ LoopTop
    \/ AnalysisReturns
    \/ Decide
    \/ PreReturns
    \/ ValidateIntermediate
    \/ EncReturns
    \/ ValidateOutput
    \/ EmitResult
    \/ EmitProgress
    \/ Stop

Spec == Init /\ [][Next]_<<vars, uivars, fnvars>>

\* ------------------------------------------------------------ the window
\* SpecUI: the window and the threads it creates. A thread's work on one file
\* (analysis, preprocessing, encoding) is one "busy" period here; Spec has it
\* call by call.
Running(w) == workers[w].pc \in {"loop", "busy"}

\* the window has a cancel button wired to stop()
HasCancel(v) == v \in {"pro", "vocal"}

InitUI ==
    /\ variant \in Variants
    /\ mode = "off"
    /\ test_mode = FALSE
    /\ pc = "loop"
    /\ idx = 1
    /\ pass = 0
    /\ analysis = << >>
    /\ measured = {}
    /\ err = NoError
    /\ trace = << >>
    /\ temp = [f \in Files |-> Absent]
    /\ out = [f \in Files |-> Absent]
    /\ abort = FALSE
    /\ events = << >>
    /\ stopAt = NoStop
    /\ exc = NoException
    /\ message = NoMessage
    /\ WindowIdle
    /\ NoCall

\* start_professional_processing / start_processing / _start_thread:
\* reachable through process_btn; creates and starts a new thread object
StartProcessing ==
    /\ ui.process_btn
    /\ ui.waiting = NoThread
    /\ \E w \in WorkerIds :
         /\ workers[w].pc = "unborn"
         /\ \A u \in WorkerIds : u < w => workers[u].pc # "unborn"
         /\ workers' = [workers EXCEPT ![w] = [pc |-> "loop", idx |-> 1, abort |-> FALSE]]
         /\ ui' = [ui EXCEPT !.thread = w, !.process_btn = FALSE,
                             !.cancel_btn = HasCancel(variant)]
    /\ UNCHANGED <<queue, vars, file_list, fnvars>>

\* run(), top of the loop: end of the list, abort observed, or the next file
WorkerLoop(w) ==
    /\ workers[w].pc = "loop"
    /\ UNCHANGED <<ui, vars, file_list, fnvars>>
    /\ IF workers[w].idx > NumFiles
       THEN /\ workers' = [workers EXCEPT ![w].pc = "finished"]
            /\ queue' = Append(queue, <<w, "all_finished">>)
       ELSE IF AbortObserved(variant, workers[w].abort)
       THEN /\ workers' = [workers EXCEPT ![w].pc = AfterAbort(variant)]
            /\ queue' = IF AfterAbort(variant) = "finished"
                        THEN Append(queue, <<w, "all_finished">>) ELSE queue
       ELSE /\ workers' = [workers EXCEPT ![w].pc = "busy"]
            /\ UNCHANGED queue

\* run(), the rest of the loop body: the file ends in success or failure, the
\* result signal and the progress signal are emitted
WorkerFileEnds(w) ==
    /\ workers[w].pc = "busy"
    /\ UNCHANGED <<ui, vars, file_list, fnvars>>
    /\ \E result \in {"file_processed", "error"} :
         queue' = Append(queue, <<w, result>>)
    /\ workers' = [workers EXCEPT ![w].pc = "loop", ![w].idx = @ + 1]

\* cancel_processing up to wait(): reachable through cancel_btn
CancelProcessing ==
    /\ HasCancel(variant)
    /\ ui.cancel_btn
    /\ ui.waiting = NoThread
    /\ ui.thread # NoThread
    /\ Running(ui.thread)
    /\ workers' = [workers EXCEPT ![ui.thread].abort = TRUE]
    /\ ui' = [ui EXCEPT !.waiting = ui.thread]
    /\ UNCHANGED <<queue, vars, file_list, fnvars>>

\* wait() returns once run() has returned; on_processing_canceled
CancelReturns ==
    /\ ui.waiting # NoThread
    /\ ~Running(ui.waiting)
    /\ ui' = [process_btn |-> TRUE, cancel_btn |-> FALSE, thread |-> NoThread,
              waiting |-> NoThread]
    /\ UNCHANGED <<workers, queue, vars, file_list, fnvars>>

\* the window after on_processing_error / on_error
OnError(v, u) ==
    IF HasCancel(v)
    THEN [u EXCEPT !.process_btn = TRUE, !.cancel_btn = FALSE, !.thread = NoThread]
    ELSE [u EXCEPT !.process_btn = TRUE]

\* the window after on_processing_finished / on_finish / on_process_complete
OnFinished(v, u) ==
    IF HasCancel(v)
    THEN [u EXCEPT !.process_btn = TRUE, !.cancel_btn = FALSE, !.thread = NoThread]
    ELSE [u EXCEPT !.process_btn = TRUE]

\* the event loop delivers the oldest queued signal to its slot
Deliver ==
    /\ ui.waiting = NoThread
    /\ queue # << >>
    /\ queue' = Tail(queue)
    /\ ui' = CASE Head(queue)[2] = "error" -> OnError(variant, ui)
               [] Head(queue)[2] = "all_finished" -> OnFinished(variant, ui)
               [] OTHER -> ui
    /\ UNCHANGED <<workers, vars, file_list, fnvars>>

NextUI ==
    \/ StartProcessing
    \/ \E w \in WorkerIds : WorkerLoop(w)
    \/ \E w \in WorkerIds : WorkerFileEnds(w)
    \/ CancelProcessing
    \/ CancelReturns
    \/ Deliver

allvars == <<vars, uivars, fnvars>>

SpecUI == InitUI /\ [][NextUI]_allvars

\* ------------------------------------------------------------ the file list
\* SpecList: the window's file list under add_files() and clear_list().
\* A path is its name without the extension and its extension; the files named
\* "c" are the small ones on disk.
\* file names without extension: "a_temp" is a followed by the tool's scratch
\* suffix (a_professional_temp, ...), "a_out" is a followed by the tool's
\* output suffix
Bases == {"a", "a_temp", "a_out", "c"}

\* the parts of a base name
Stem(base) ==
    CASE base = "a_temp" -> <<"a", "temp">>
      [] base = "a_out" -> <<"a", "out">>
      [] OTHER -> <<base>>

Exts == {".mp3", ".wav", ".txt"}

\* the files of the folder the dialog shows
Paths ==
    {p \in [base : Bases, ext : Exts] :
        \/ p.base = "a"
        \/ p.base = "a_temp" /\ p.ext = ".wav"
        \/ p.base = "a_out" /\ p.ext = ".mp3"
        \/ p.base = "c" /\ p.ext = ".mp3"}

\* os.path.getsize(f)
FileSize(p) == IF p.base = "c" THEN 2 * 1024 ELSE 64 * 1024

\* the extensions add_files() lets in (all tools take .mp3 and .wav)
SupportedExts == {".mp3", ".wav"}

\* os.path.getsize(f) > 3*1024 (10*1024 in bgm27, no size check in bgm25)
MinInputSize(v) ==
    CASE v \in {"pro", "vocal"} -> 3 * 1024
      [] v = "bgm27" -> 10 * 1024
      [] OTHER -> -1

\* how many files one dialog can hand back
MaxPick == 2

\* what QFileDialog.getOpenFileNames can return: distinct paths, in some order
DialogResults ==
    {files \in UNION {[1..n -> Paths] : n \in 0..MaxPick} :
        \A i, j \in DOMAIN files : i # j => files[i] # files[j]}

\* temp_wav = f"{base}_professional_temp.wav", base = os.path.splitext(input_path)[0]
TempSuffix(v) ==
    CASE v = "pro" -> "_professional_temp.wav"
      [] v = "vocal" -> "_vocal_temp.wav"
      [] v = "bgm27" -> "_bgm_temp.wav"
      [] OTHER -> "_temp.wav"

ScratchPath(v, p) == [base |-> p.base, suffix |-> TempSuffix(v)]

\* a path as its parts: the parts of the base name, then the extension
FullPath(p) == Stem(p.base) \o <<p.ext>>

\* temp_wav as its parts
ScratchFile(v, p) == Stem(p.base) \o <<"temp", ".wav">>

\* output_path as its parts: f"{base}<output suffix>{output_params['ext']}"
\* (always .mp3 in 2.5); a .wav input is lossless and gives .flac
OutputFile(v, p) ==
    Stem(p.base) \o <<"out", IF v = "bgm25" \/ p.ext = ".mp3" THEN ".mp3" ELSE ".flac">>

\* the files the run of input p removes before it starts and the files it writes
Touched(v, p) == {ScratchFile(v, p), OutputFile(v, p)}

\* the guard of add_files(): supported extension, not queued yet, large enough
Enqueueable(v, list, f) ==
    /\ f.ext \in SupportedExts
    /\ \A i \in DOMAIN list : list[i] # f
    /\ FileSize(f) > MinInputSize(v)

\* self.file_list after add_files() got `files` from the dialog
ExtendList(v, list, files) == list \o SelectSeq(files, LAMBDA f : Enqueueable(v, list, f))

AddFiles ==
    /\ \E files \in DialogResults :
         /\ files # << >>
         /\ file_list' = ExtendList(variant, file_list, files)
    /\ UNCHANGED <<ui, workers, queue, vars, fnvars>>

ClearList ==
    /\ file_list # << >>
    /\ file_list' = << >>
    /\ UNCHANGED <<ui, workers, queue, vars, fnvars>>

NextList ==
    \/ AddFiles
    \/ ClearList

SpecList == InitUI /\ [][NextList]_allvars

\* ------------------------------------------------------------ the functions
\* SpecFn: the functions run() calls between the analysis and the two engine
\* calls, applied to analysis dicts and settings drawn from the sets below.

\* ---- calculate_quality_score (part_000)
\* the analysis dicts the scorer is applied to: every tier of every bonus, with
\* the values on both sides of each threshold
ScoreFeatures ==
    {[DefaultFeatures EXCEPT !.is_lossless = l, !.bitrate = b, !.sample_rate = r,
                             !.loudness = i, !.dynamic_range = d, !.noise_floor = n] :
        l \in BOOLEAN, b \in {128, 191, 192, 320}, r \in {44100, 48000},
        i \in {-21, -20, -19, -18, -16, -14, -13, -12, -11},
        d \in {10, 11, 12, 14, 15, 16}, n \in {-60, -55, -54, -45, -44, -40}}

FormatBonus(a) ==
    IF a.is_lossless THEN 15
    ELSE IF a.bitrate >= 320 THEN 10
    ELSE IF a.bitrate >= 192 THEN 5
    ELSE 0

SampleRateBonus(a) == IF a.sample_rate >= 48000 THEN 5 ELSE 0

\* mutant: the two tiers carry each other's bonus
LoudnessBonusSwapped(a) ==
    IF Abs(a.loudness + 16) <= 2 THEN 5
    ELSE IF Abs(a.loudness + 16) <= 4 THEN 10
    ELSE 0

LoudnessBonus(a) ==
    IF Abs(a.loudness + 16) <= 2 THEN 10
    ELSE IF Abs(a.loudness + 16) <= 4 THEN 5
    ELSE 0

DynamicsBonus(a) ==
    IF a.dynamic_range >= 15 THEN 10
    ELSE IF a.dynamic_range >= 12 THEN 5
    ELSE 0

NoiseBonus(a) ==
    IF a.noise_floor <= -55 THEN 10
    ELSE IF a.noise_floor <= -45 THEN 5
    ELSE 0

\* mutant: `if` for `elif` in the format bonus, and the result returned as it is
calculate_quality_score_stacked(a) ==
    50 + (IF a.is_lossless THEN 15 ELSE 0) + (IF a.bitrate >= 320 THEN 10 ELSE 0)
       + (IF a.bitrate >= 192 THEN 5 ELSE 0)
       + SampleRateBonus(a) + LoudnessBonus(a) + DynamicsBonus(a) + NoiseBonus(a)

\* score = 50.0, the five bonuses, return min(score, 100.0)
calculate_quality_score(a) ==
    Min2(50 + FormatBonus(a) + SampleRateBonus(a) + LoudnessBonus(a) + DynamicsBonus(a)
            + NoiseBonus(a), 100)

\* the dicts of ScoreFeatures that are a with one field changed for the better
Improvements(a) ==
    {b \in
        {[a EXCEPT !.is_lossless = TRUE]}
        \cup {[a EXCEPT !.bitrate = x] : x \in {191, 192, 320}}
        \cup {[a EXCEPT !.sample_rate = 48000]}
        \cup {[a EXCEPT !.loudness = x] : x \in {-21, -20, -19, -18, -16, -14, -13, -12, -11}}
        \cup {[a EXCEPT !.dynamic_range = x] : x \in {11, 12, 14, 15, 16}}
        \cup {[a EXCEPT !.noise_floor = x] : x \in {-60, -55, -54, -45, -44}} :
      \/ b.is_lossless /\ ~a.is_lossless
      \/ b.bitrate > a.bitrate
      \/ b.sample_rate > a.sample_rate
      \/ Abs(b.loudness + 16) < Abs(a.loudness + 16)
      \/ b.dynamic_range > a.dynamic_range
      \/ b.noise_floor < a.noise_floor}

\* ---- get_professional_output_params / get_output_params
VideoFormats == {".mp4", ".mov", ".mkv", ".avi"}

\* extensions add_files() lets in: only part_000 takes video containers
InputFormats(v) ==
    IF v = "pro" THEN {".mp3", ".wav", ".m4a", ".mp4"} ELSE {".mp3", ".wav", ".m4a"}

\* the analysis dicts the output format is chosen for
ParamFeatures(v) ==
    {[DefaultFeatures EXCEPT !.format = x, !.is_lossless = l, !.bitrate = b] :
        x \in InputFormats(v), l \in BOOLEAN, b \in {128, 192, 320}}

\* the dict returned: codec, extension, the bit rate of "-b:a" in kbit/s (0 when
\* the codec has none), and whether the video stream of the input is kept
get_output_params(v, a) ==
    CASE v = "pro" ->
           (IF a.format \in VideoFormats
            THEN [codec |-> "aac", ext |-> ".mp4", bitrate |-> 192, is_video |-> TRUE]
            ELSE IF a.is_lossless \/ a.bitrate >= 320
            THEN [codec |-> "flac", ext |-> ".flac", bitrate |-> 0, is_video |-> FALSE]
            ELSE IF a.format \in {".m4a", ".aac"}
            THEN [codec |-> "aac", ext |-> ".m4a", bitrate |-> 192, is_video |-> FALSE]
            ELSE [codec |-> "libmp3lame", ext |-> ".mp3", bitrate |-> 192, is_video |-> FALSE])
      [] v \in {"vocal", "bgm27"} ->
           (IF a.is_lossless
            THEN [codec |-> "flac", ext |-> ".flac", bitrate |-> 0, is_video |-> FALSE]
            ELSE IF a.format \in {".m4a", ".aac"}
            THEN [codec |-> "aac", ext |-> ".m4a", bitrate |-> a.bitrate, is_video |-> FALSE]
            ELSE [codec |-> "libmp3lame", ext |-> ".mp3", bitrate |-> a.bitrate,
                  is_video |-> FALSE])
      [] OTHER -> [codec |-> "libmp3lame", ext |-> ".mp3", bitrate |-> 0, is_video |-> FALSE]

\* ---- filter graph text
\* The text of a filter graph is kept as the sequence of its pieces:
\*   filter  one filter with its options; numbers computed at run time are in args
\*   word    text that goes on an option after a space
\*   label   a pin label, [name]
\*   sep     "," between the filters of one chain, ";" between chains
\*   space   " " (one run of blanks) or "\n"
\* Numbers with a fraction are in tenths, the wet level of the reverb in hundredths.
F(text, args) == [kind |-> "filter", text |-> text, args |-> args]

W(text) == [kind |-> "word", text |-> text, args |-> << >>]

L(name) == [kind |-> "label", text |-> name, args |-> << >>]

Comma == [kind |-> "sep", text |-> ",", args |-> << >>]

Semi == [kind |-> "sep", text |-> ";", args |-> << >>]

SP == [kind |-> "space", text |-> " ", args |-> << >>]

NL == [kind |-> "space", text |-> "\n", args |-> << >>]

\* str.replace(ch, "") for ch = " " or "\n"
Replace(text, ch) == SelectSeq(text, LAMBDA t : ~(t.kind = "space" /\ t.text = ch))

\* ",".join(texts)
RECURSIVE Join(_)
Join(texts) ==
    IF Len(texts) = 0 THEN << >>
    ELSE IF Len(texts) = 1 THEN texts[1]
    ELSE texts[1] \o <<Comma>> \o Join(Tail(texts))

Texts(fl) == [i \in DOMAIN fl |-> fl[i].text]

Max2(a, b) == IF a > b THEN a ELSE b

\* ---- part_000: build_gentle_reverb_filter, build_professional_filter_chain
\* mutant: amounts 2 and 3 share one wet level
reverb_presets_flat(n) ==
    CASE n = 1 -> [delays |-> <<30, 55, 80, 110>>, decays |-> <<20, 16, 13, 10>>, wet |-> 12]
      [] n = 2 -> [delays |-> <<25, 50, 75, 100, 130>>, decays |-> <<24, 20, 16, 13, 10>>,
                   wet |-> 16]
      [] n = 3 -> [delays |-> <<20, 40, 60, 85, 110, 140>>,
                   decays |-> <<28, 24, 20, 16, 13, 10>>, wet |-> 16]
      [] n = 4 -> [delays |-> <<18, 36, 54, 76, 98, 122, 150>>,
                   decays |-> <<32, 28, 24, 20, 16, 13, 10>>, wet |-> 24]
      [] n = 5 -> [delays |-> <<16, 32, 48, 68, 88, 110, 135, 165>>,
                   decays |-> <<36, 32, 28, 24, 20, 16, 13, 10>>, wet |-> 28]

reverb_presets(n) ==
    CASE n = 1 -> [delays |-> <<30, 55, 80, 110>>, decays |-> <<20, 16, 13, 10>>, wet |-> 12]
      [] n = 2 -> [delays |-> <<25, 50, 75, 100, 130>>, decays |-> <<24, 20, 16, 13, 10>>,
                   wet |-> 16]
      [] n = 3 -> [delays |-> <<20, 40, 60, 85, 110, 140>>,
                   decays |-> <<28, 24, 20, 16, 13, 10>>, wet |-> 20]
      [] n = 4 -> [delays |-> <<18, 36, 54, 76, 98, 122, 150>>,
                   decays |-> <<32, 28, 24, 20, 16, 13, 10>>, wet |-> 24]
      [] n = 5 -> [delays |-> <<16, 32, 48, 68, 88, 110, 135, 165>>,
                   decays |-> <<36, 32, 28, 24, 20, 16, 13, 10>>, wet |-> 28]

\* mutant: the mix stage names the branch's input pin instead of its output pin
build_gentle_reverb_filter_wet(reverb_amount) ==
    IF reverb_amount = 0 THEN << >>
    ELSE LET preset == IF reverb_amount \in 1..5 THEN reverb_presets(reverb_amount)
                       ELSE reverb_presets(2)
         IN <<F("asplit=2", << >>), L("dry"), L("wet"), Semi,
              L("wet"), F("aecho=0.6:0.4", preset.delays \o preset.decays), Comma,
              F("highpass=f=180", << >>), Comma, F("lowpass=f=8000", << >>), Comma,
              F("volume", <<preset.wet>>), L("wet_out"), Semi,
              L("dry"), L("wet"), F("amix=inputs=2:normalize=0", << >>)>>

build_gentle_reverb_filter(reverb_amount) ==
    IF reverb_amount = 0 THEN << >>
    ELSE LET preset == IF reverb_amount \in 1..5 THEN reverb_presets(reverb_amount)
                       ELSE reverb_presets(2)
         IN Replace(Replace(
              <<NL, SP, F("asplit=2", << >>), L("dry"), L("wet"), Semi,
                NL, SP, L("wet"), F("aecho=0.6:0.4", preset.delays \o preset.decays), Comma,
                F("highpass=f=180", << >>), Comma, F("lowpass=f=8000", << >>), Comma,
                F("volume", <<preset.wet>>), L("wet_out"), Semi,
                NL, SP, L("dry"), L("wet_out"), F("amix=inputs=2:normalize=0", << >>),
                NL, SP>>, "\n"), " ")

\* nr_key, then nr_map.get(nr_key, "highpass=f=150,lowpass=f=12000")
nr_map(noise_reduction) ==
    LET nr_key == CASE noise_reduction = "light" -> "low"
                    [] noise_reduction = "middle" -> "medium"
                    [] noise_reduction = "heavy" -> "high"
                    [] OTHER -> noise_reduction
    IN CASE nr_key = "low" -> <<F("highpass=f=100", << >>), Comma, F("lowpass=f=14000", << >>)>>
         [] nr_key = "high" -> <<F("highpass=f=200", << >>), Comma, F("lowpass=f=10000", << >>)>>
         [] OTHER -> <<F("highpass=f=150", << >>), Comma, F("lowpass=f=12000", << >>)>>

\* the five bands of the preset's EQ curve
eq_settings(preset) ==
    CASE preset = "news" ->
           <<"equalizer=f=100:g=1.5:w=0.707", "equalizer=f=300:g=-1.0:w=1.0",
             "equalizer=f=1000:g=2.0:w=1.0", "equalizer=f=3000:g=1.5:w=1.0",
             "equalizer=f=6000:g=0.5:w=2.0">>
      [] preset = "documentary" ->
           <<"equalizer=f=80:g=2.0:w=0.707", "equalizer=f=250:g=1.0:w=1.0",
             "equalizer=f=800:g=1.5:w=1.0", "equalizer=f=2000:g=1.0:w=1.0",
             "equalizer=f=4000:g=0.5:w=1.0">>
      [] preset = "advertisement" ->
           <<"equalizer=f=120:g=1.5:w=0.707", "equalizer=f=400:g=1.0:w=1.0",
             "equalizer=f=1500:g=2.0:w=1.0", "equalizer=f=4000:g=2.0:w=1.0",
             "equalizer=f=8000:g=1.0:w=2.0">>
      [] OTHER ->
           <<"equalizer=f=100:g=1.5:w=0.707", "equalizer=f=300:g=-0.5:w=1.0",
             "equalizer=f=1000:g=1.5:w=1.0", "equalizer=f=3000:g=1.0:w=1.0",
             "equalizer=f=6000:g=0.5:w=2.0">>

\* filter texts joined by ","
Bands(names) == Join([i \in DOMAIN names |-> <<F(names[i], << >>)>>])

alimiter == <<F("alimiter=level_in=1:level_out=1:limit=0.9:attack=0.1:release=5:asc=0", << >>)>>

\* the list `filters` of build_professional_filter_chain, one element per section
\* the measured_I / measured_LRA / measured_TP options of the loudnorm stage:
\* where each value is taken from (a key of the analysis dict, or a literal of
\* the source) and the value; TP is in tenths
loudnorm_measured(a) ==
    [I |-> [source |-> "loudness", value |-> a.loudness],
     LRA |-> [source |-> "dynamic_range", value |-> a.dynamic_range],
     TP |-> [source |-> "literal", value |-> -10]]

professional_filters(i, a) ==
    LET clarity_gain == (i.voice_clarity - 3) * 6
        warmth_gain == (i.warmth_level - 3) * 5
        reverb_filter == build_gentle_reverb_filter(i.reverb_amount)
    IN <<[stage |-> "noise", text |-> nr_map(i.noise_reduction)],
         [stage |-> "eq",
          text |-> Bands(eq_settings(i.preset)) \o
                   <<Comma, F("equalizer=f=2500:g:w=1.2", <<15 + clarity_gain>>),
                     Comma, F("equalizer=f=200:g:w=1.4", <<10 + warmth_gain>>)>>],
         [stage |-> "compress",
          text |-> <<F("acompressor=threshold=-20dB:ratio=2.0:attack=50:release=500:makeup=2",
                       << >>)>>],
         [stage |-> "tone", text |-> <<F("equalizer=f=2000:g=0.5:w=2.0", << >>)>>]>>
       \o (IF i.reverb_amount > 0 /\ reverb_filter # << >>
           THEN <<[stage |-> "reverb", text |-> reverb_filter]>> ELSE << >>)
       \o <<[stage |-> "loudnorm",
             text |-> <<F("loudnorm=I=-16.0:LRA=8:TP=-1.0:measured_I:measured_LRA:measured_TP=-1.0",
                          <<loudnorm_measured(a).I.value, loudnorm_measured(a).LRA.value>>)>>],
            [stage |-> "limiter", text |-> alimiter]>>

build_professional_filter_chain(i, a) ==
    [filters |-> professional_filters(i, a),
     chain |-> Replace(Replace(Join(Texts(professional_filters(i, a))), "\n"), " "),
     raised |-> "none"]

\* ---- 2.0: build_vocal_filter_chain ; 2.7: build_processing_chain
\* the three-band compressor both tools append, as written in the source: a
\* triple-quoted text with line breaks, indentation and blanks between the weights
three_band(ratio) ==
    <<F("asplit=3", << >>), L("low"), L("mid"), L("high"), Semi,
      NL, SP, L("low"), F("lowpass=f=300", << >>), Comma,
      F("acompressor=threshold=-24dB:ratio=3.5:attack=50:release=1000", << >>),
      L("low_out"), Semi,
      NL, SP, L("mid"), F("highpass=f=300", << >>), Comma, F("lowpass=f=3000", << >>), Comma,
      F("acompressor=threshold=-22dB:ratio:attack=30:release=800", <<ratio>>),
      L("mid_out"), Semi,
      NL, SP, L("high"), F("highpass=f=3000", << >>), Comma,
      F("acompressor=threshold=-20dB:ratio=2.0:attack=20:release=500", << >>),
      L("high_out"), Semi,
      NL, SP, L("low_out"), L("mid_out"), L("high_out"),
      F("amix=inputs=3:weights=1.1", << >>), SP, W("1.0"), SP, W("0.9")>>

\* int(dn_map.get(denoise_level, "-30"))
dn_map(denoise_level) ==
    CASE denoise_level = "low" -> -20
      [] denoise_level = "mid" -> -30
      [] denoise_level = "high" -> -40
      [] OTHER -> -30

\* the three bands of the scene's EQ
scene_eq(scene_mode) ==
    CASE scene_mode = "spoken" ->
           <<"equalizer=f=160:g=2.0:w=1.6", "equalizer=f=1200:g=2.5:w=1.0",
             "equalizer=f=8000:g=2.0:w=2.0">>
      [] scene_mode = "emotional" ->
           <<"equalizer=f=160:g=3.5:w=1.6", "equalizer=f=1200:g=2.0:w=1.0",
             "equalizer=f=8000:g=2.2:w=2.0">>
      [] OTHER ->
           <<"equalizer=f=160:g=2.0:w=1.6", "equalizer=f=1200:g=2.0:w=1.0",
             "equalizer=f=8000:g=1.5:w=2.0">>

\* sound_field_presets.get(sound_field, sound_field_presets["slight"])
vocal_sound_field(sound_field) ==
    CASE sound_field = "original" ->
           <<F("pan=stereo|c0=1.0*c0+0.0*c1|c1=0.0*c0+1.0*c1", << >>)>>
      [] sound_field = "broadcast" ->
           <<F("pan=stereo|c0=0.7*c0+0.3*c1|c1=0.3*c0+0.7*c1", << >>), Comma,
             F("adelay=1ms|0ms", << >>)>>
      [] OTHER -> <<F("pan=stereo|c0=0.8*c0+0.2*c1|c1=0.2*c0+0.8*c1", << >>)>>

vocal_filters(i, a) ==
    LET base_dn == dn_map(i.denoise_level)
        final_dn == IF a.noise_floor > -45 THEN base_dn
                    ELSE IF a.noise_floor < -55 THEN base_dn + 10
                    ELSE base_dn + 5
        clarity_gain == (i.voice_clarity_level - 3) * 5
        ratio == IF a.dynamic_range > 20 THEN 30 ELSE 20
        i_val == IF a.high_freq_energy > -15 THEN 6 ELSE 4
    IN <<[stage |-> "noise",
          text |-> <<F("afftdn=nf:nt=w", <<final_dn>>), Comma, F("highpass=f=80", << >>)>>],
         [stage |-> "eq",
          text |-> Bands(scene_eq(i.scene_mode)) \o
                   <<Comma, F("equalizer=f=3500:g:w=1.0", <<20 + clarity_gain>>)>>],
         [stage |-> "compress", text |-> three_band(ratio)]>>
       \o (IF i.deesser_on
           THEN <<[stage |-> "deesser", text |-> <<F("deesser=i:m:f=0.5", <<i_val, i_val>>)>>]>>
           ELSE << >>)
       \o <<[stage |-> "pan", text |-> vocal_sound_field(i.sound_field)]>>

build_vocal_filter_chain(i, a) ==
    [filters |-> vocal_filters(i, a),
     chain |-> Replace(Replace(Join(Texts(vocal_filters(i, a))), "\n"), " "),
     raised |-> "none"]

\* the keys of sound_field_presets (2.7) and of pan_options (2.5)
SoundFields(v) ==
    IF v = "bgm27" THEN {"original", "slight", "wide"} ELSE {"wide", "extra_wide", "default"}

\* sound_field_presets[sound_field] / pan_options[self.pan_type]
pan_text(v, name) ==
    CASE name \in {"original", "extra_wide"} ->
           <<F("pan=stereo|c0=1.0*c0+0.0*c1|c1=0.0*c0+1.0*c1", << >>)>>
      [] name \in {"slight", "default"} ->
           <<F("pan=stereo|c0=0.8*c0+0.2*c1|c1=0.2*c0+0.8*c1", << >>)>>
      [] v = "bgm27" -> <<F("pan=stereo|c0=0.7*c0+0.3*c1|c1=0.3*c0+0.7*c1", << >>)>>
      [] OTHER -> <<F("pan=stereo|c0=0.9*c0+0.1*c1|c1=0.1*c0+0.9*c1", << >>)>>

processing_filters(i, a) ==
    <<[stage |-> "noise",
       text |-> <<F("afftdn=nf=-35:nt=w", << >>), Comma, F("highpass=f=50", << >>)>>],
      [stage |-> "eq",
       text |-> IF i.avoid_vocal
                THEN Bands(<<"equalizer=f=1500:g=-4:w=2.0", "equalizer=f=300:g=1.5:w=1.0",
                             "equalizer=f=8000:g=1.5:w=2.0">>)
                ELSE Bands(<<"equalizer=f=200:g=1:w=1.0", "equalizer=f=5000:g=1:w=2.0">>)]>>
    \o (IF i.use_compress
        THEN <<[stage |-> "compress",
                text |-> three_band(IF a.dynamic_range > 20 THEN 30 ELSE 20)]>>
        ELSE << >>)

build_processing_chain(i, a) ==
    IF i.sound_field \notin SoundFields("bgm27")
    THEN [filters |-> processing_filters(i, a), chain |-> << >>, raised |-> "KeyError"]
    ELSE LET fl == processing_filters(i, a)
                   \o <<[stage |-> "pan", text |-> pan_text("bgm27", i.sound_field)]>>
         IN [filters |-> fl,
             chain |-> Replace(Replace(Join(Texts(fl)), "\n"), " "),
             raised |-> "none"]

\* ---- 2.5: get_multi_band_params, _get_traditional_compress_params, _process_audio
get_multi_band_params(dynamic_range, attack, release, eq_freq, eq_gain) ==
    LET base_ratio == IF dynamic_range < 15 THEN 2 ELSE IF dynamic_range < 20 THEN 3 ELSE 4
    IN <<F("asplit=3", << >>), L("low"), L("mid"), L("high"), Semi,
         L("low"), F("lowpass=250", << >>), Comma,
         F("acompressor=threshold=-22dB:ratio:attack:release:knee=12dB:makeup=4dB",
           <<base_ratio * 10, attack, release>>),
         L("low_out"), Semi,
         L("mid"), F("highpass=250", << >>), Comma, F("lowpass=2000", << >>), Comma,
         F("acompressor=threshold=-20dB:ratio:attack:release:knee=8dB:makeup=3dB",
           <<Max2(15, base_ratio * 10 - 5), Min2(attack + 20, 50), Min2(release + 300, 800)>>),
         Comma, F("equalizer=f:g:w=1.0", <<eq_freq, eq_gain>>),
         L("mid_out"), Semi,
         L("high"), F("highpass=2000", << >>), Comma,
         F("acompressor=threshold=-18dB:ratio:attack:release:knee=6dB:makeup=2dB",
           <<Max2(12, base_ratio * 10 - 10), Max2(attack - 2, 3), Min2(release + 100, 500)>>),
         L("high_out"), Semi,
         L("low_out"), L("mid_out"), L("high_out"),
         F("amix=inputs=3:weights=1.2", << >>), SP, W("1"), SP, W("0.8")>>

traditional_compress_params(dynamic_range) ==
    IF dynamic_range >= 20
    THEN "acompressor=threshold=-20dB:ratio=4:attack=10:release=100:knee=8dB:makeup=6dB"
    ELSE IF dynamic_range >= 10
    THEN "acompressor=threshold=-18dB:ratio=3:attack=8:release=80:knee=6dB:makeup=4dB"
    ELSE "acompressor=threshold=-16dB:ratio=2:attack=5:release=60:knee=4dB:makeup=2dB"

\* run(): compress_filter by the two check boxes
compress_filter(i, a) ==
    CASE i.compress = "smart" ->
           get_multi_band_params(a.dynamic_range, a.attack, a.release, i.eq_freq, i.eq_gain)
      [] i.compress = "traditional" -> <<F(traditional_compress_params(a.dynamic_range), << >>)>>
      [] OTHER -> <<F("anull", << >>)>>

\* _process_audio: pre_filters; pan_type "" is the empty string (no pan stage)
pre_filters(i, a) ==
    (IF i.eq_enabled
     THEN <<[stage |-> "eq", text |-> <<F("equalizer=f:g:w=1.0", <<i.eq_freq, i.eq_gain>>)>>]>>
     ELSE << >>)
    \o <<[stage |-> "compress", text |-> compress_filter(i, a)]>>

process_audio_chain(i, a) ==
    IF i.pan_type = ""
    THEN [filters |-> pre_filters(i, a), chain |-> Join(Texts(pre_filters(i, a))),
          raised |-> "none"]
    ELSE IF i.pan_type \notin SoundFields("bgm25")
    THEN [filters |-> pre_filters(i, a), chain |-> << >>, raised |-> "KeyError"]
    ELSE LET fl == pre_filters(i, a)
                   \o <<[stage |-> "pan", text |-> pan_text("bgm25", i.pan_type)]>>
         IN [filters |-> fl, chain |-> Join(Texts(fl)), raised |-> "none"]

\* ---- 2.5: get_adaptive_loudnorm and the loudnorm_filter of run()
TARGET_LUFS == -16

\* mutant: the fixed target whatever the input's loudness is
get_adaptive_loudnorm_uncapped(input_lufs) ==
    [I |-> TARGET_LUFS, LRA |-> 11, TP |-> -15]

\* the loudnorm text as its three options; TP is in tenths
get_adaptive_loudnorm(input_lufs) ==
    [I |-> IF input_lufs < TARGET_LUFS - 10 THEN input_lufs + 8 ELSE TARGET_LUFS,
     LRA |-> 11, TP |-> -15]

\* smart compression measures the input and adapts; the other modes do neither
loudnorm_filter(compress, input_lufs) ==
    IF compress = "smart" THEN get_adaptive_loudnorm(input_lufs)
    ELSE [I |-> TARGET_LUFS, LRA |-> 11, TP |-> -15]

\* values detect_lufs can return
InputLufs == {-40, -30, -27, -26, -25, -20, -16, -10}

\* ---- the settings and analysis dicts the chains are built for
Intents(v) ==
    CASE v = "pro" ->
           [preset : {"general", "news", "documentary", "advertisement", "other"},
            voice_clarity : {1, 3, 5}, warmth_level : {1, 3, 5},
            reverb_amount : {-1, 0, 1, 2, 3, 4, 5, 6},
            noise_reduction : {"light", "middle", "heavy", "high", "other"}]
      [] v = "vocal" ->
           [scene_mode : {"spoken", "emotional", "narration", "other"},
            voice_clarity_level : {1, 3, 5}, deesser_on : BOOLEAN,
            sound_field : {"original", "slight", "broadcast", "other"},
            denoise_level : {"light", "middle", "heavy", "low", "mid", "high", "other"}]
      [] v = "bgm27" ->
           [use_compress : BOOLEAN, sound_field : {"original", "slight", "wide", "other"},
            avoid_vocal : BOOLEAN]
      [] OTHER ->
           [pan_type : {"default", "wide", "extra_wide", "", "other"}, eq_enabled : BOOLEAN,
            eq_freq : {200, 2000}, eq_gain : {-12, -6, 0}, compress : CompressModes]

ChainFeatures(v) ==
    CASE v = "pro" ->
           {[DefaultFeatures EXCEPT !.loudness = l, !.dynamic_range = d, !.noise_floor = n] :
               l \in {-23, -20}, d \in {12, 50}, n \in {-60, -38}}
      [] v = "vocal" ->
           {[DefaultFeatures EXCEPT !.noise_floor = n, !.dynamic_range = d,
                                    !.high_freq_energy = h] :
               n \in {-60, -55, -50, -45, -38}, d \in {12, 25}, h \in {-20, -10}}
      [] v = "bgm27" -> {[DefaultFeatures EXCEPT !.dynamic_range = d] : d \in {12, 25}}
      [] OTHER ->
           {[DefaultFeatures EXCEPT !.dynamic_range = d, !.attack = t[1], !.release = t[2]] :
               d \in {9, 10, 12, 14, 15, 17, 19, 20, 25}, t \in {<<5, 200>>, <<30, 500>>}}

\* the chain builder of each tool
build_chain(v, i, a) ==
    CASE v = "pro" -> build_professional_filter_chain(i, a)
      [] v = "vocal" -> build_vocal_filter_chain(i, a)
      [] v = "bgm27" -> build_processing_chain(i, a)
      [] OTHER -> process_audio_chain(i, a)

\* ---- the actions
\* what a call leaves of the previous call: nothing
Returns(o, a, i, sc, pa, fl, ch, ra) ==
    /\ op' = o
    /\ fs' = a
    /\ intent' = i
    /\ score' = sc
    /\ params' = pa
    /\ filters' = fl
    /\ chain' = ch
    /\ raised' = ra
    /\ UNCHANGED <<vars, uivars>>

\* analysis["quality_score"] = calculate_quality_score(analysis)
ScoreFile ==
    /\ variant = "pro"
    /\ op = "none"
    /\ \E a \in ScoreFeatures :
         Returns("score", a, DefaultIntent(variant), calculate_quality_score(a), NoParams,
                 << >>, << >>, "none")

\* the same with one field of the dict better than in the call before
ScoreImproved ==
    /\ variant = "pro"
    /\ op \in {"score", "improved"}
    /\ \E b \in Improvements(fs) :
         /\ Returns("improved", b, DefaultIntent(variant), calculate_quality_score(b), NoParams,
                    << >>, << >>, "none")

\* output_params = get_professional_output_params(analysis)
OutputParams ==
    /\ op = "none"
    /\ \E a \in ParamFeatures(variant) :
      Returns("params", a, DefaultIntent(variant), 0, get_output_params(variant, a),
              << >>, << >>, "none")

\* filter_chain = build_professional_filter_chain(preset, ..., analysis)
BuildChain ==
    /\ op = "none"
    /\ \E i \in Intents(variant), a \in ChainFeatures(variant) :
         LET r == build_chain(variant, i, a)
         IN Returns("chain", a, i, 0, NoParams, r.filters, r.chain, r.raised)

\* loudnorm_filter = self.smart_compressor.get_adaptive_loudnorm(input_lufs)
Loudnorm ==
    /\ variant = "bgm25"
    /\ op = "none"
    /\ \E compress \in CompressModes, l \in InputLufs :
         Returns("loudnorm",
                 [DefaultFeatures EXCEPT !.loudness = IF compress = "smart" THEN l ELSE @],
                 [DefaultIntent(variant) EXCEPT !.compress = compress], 0,
                 loudnorm_filter(compress, l), << >>, << >>, "none")

NextFn ==
    \/ Loudnorm
    \/ ScoreFile
    \/ ScoreImproved
    \/ OutputParams
    \/ BuildChain

SpecFn == InitUI /\ [][NextFn]_allvars

\* ================================================================ claims
Range(q) == {q[i] : i \in 1..Len(q)}

\* how many per-file result signals (success or failure) file f has had
ResultCount(f) ==
    Cardinality({i \in 1..Len(events) : events[i] \in {<<"file_processed", f>>, <<"error", f>>}})

InRun == pc \in {"analyzing", "deciding", "preprocessing", "validating_intermediate",
                 "encoding", "validating_output"}

RunEnded == pc \in {"done", "failed", "progress"}

\* the engine call in flight, "none" between calls
CurrentCall ==
    CASE pc = "analyzing" -> Passes[pass]
      [] pc = "preprocessing" -> "pre"
      [] pc = "encoding" -> "enc"
      [] OTHER -> "none"

C2_FailureIsolated ==
    ~abort =>
        /\ \A f \in Files : f < idx => ResultCount(f) = 1
        /\ \A f \in Files : f > idx => ResultCount(f) = 0
        /\ pc \in {"finished", "aborted"} => idx = NumFiles + 1

\* C2 witness: the first file failed, the last file was attempted and succeeded,
\* and the batch ran to its end
C2_Witness ==
    /\ ~abort
    /\ pc = "finished"
    /\ <<"error", 1>> \in Range(events)
    /\ <<"file_processed", NumFiles>> \in Range(events)

\* C3: with the abort flag set, the loop top starts no file; a run that is
\* under way when the flag is set goes on stage by stage and emits its result;
\* the worker returns early only from the loop top.
C3_Cooperative ==
    [][ /\ (abort /\ pc = "loop") => pc' \in {"loop", "aborted", "finished"}
        /\ (abort /\ InRun) => pc' \notin {"loop", "aborted", "finished", "progress"}
        /\ (abort /\ pc \in {"done", "failed"} /\ pc' # pc) =>
               /\ pc' = "progress"
               /\ events' = Append(events, <<IF pc = "done" THEN "file_processed" ELSE "error", idx>>)
        /\ (pc' = "aborted" /\ pc # "aborted") => (pc = "loop" /\ abort)
      ]_vars

\* C3 witness: stop() came while the encoding call of a file was in flight; the
\* file still got its success signal and the worker then returned without
\* starting the next file
C3_Witness ==
    /\ pc = "aborted"
    /\ stopAt.pc = "encoding"
    /\ stopAt.idx < NumFiles
    /\ <<"file_processed", stopAt.idx>> \in Range(events)
    /\ ResultCount(stopAt.idx + 1) = 0

\* C4: when stop() is called between files, with k files completed and file
\* k + 1 not started, exactly k result signals exist from then on, none for the
\* files k + 1 .. N, the worker ends with its terminated message and never emits
\* all_finished.
C4_CancelBetweenFiles ==
    (stopAt.pc = "loop" /\ stopAt.idx <= NumFiles) =>
        /\ \A f \in Files : ResultCount(f) = (IF f < stopAt.idx THEN 1 ELSE 0)
        /\ <<"all_finished", 0>> \notin Range(events)
        /\ pc \in {"loop", "aborted"}
        /\ pc = "aborted" => events[Len(events)] = <<"log_terminated", stopAt.idx>>

\* C4 witness: cancelled after file 1, before file 2: one success signal, then
\* the terminated message
C4_Witness ==
    /\ pc = "aborted"
    /\ stopAt = [idx |-> 2, pc |-> "loop"]
    /\ events = <<<<"file_processed", 1>>, <<"progress", Progress(1, NumFiles)>>,
                  <<"log_terminated", 2>>>>

\* C5 (as claimed): at most one thread is running and at most one is inside its
\* engine work at any time
C5_SingleWorker ==
    /\ Cardinality({w \in WorkerIds : Running(w)}) <= 1
    /\ Cardinality({w \in WorkerIds : workers[w].pc = "busy"}) <= 1

StageRank(st) ==
    CASE st = "Analyzing" -> 1
      [] st = "Deciding" -> 2
      [] st = "Preprocessing" -> 3
      [] st = "ValidatingIntermediate" -> 4
      [] st = "Encoding" -> 5
      [] st = "ValidatingOutput" -> 6
      [] st = "Done" -> 7
      [] st = "Failed" -> 8

\* the stage a position of run() belongs to
StageOf(p) ==
    CASE p = "analyzing" -> "Analyzing"
      [] p = "deciding" -> "Deciding"
      [] p = "preprocessing" -> "Preprocessing"
      [] p = "validating_intermediate" -> "ValidatingIntermediate"
      [] p = "encoding" -> "Encoding"
      [] p = "validating_output" -> "ValidatingOutput"
      [] p = "done" -> "Done"
      [] p = "failed" -> "Failed"
      [] OTHER -> "none"

\* C6: the stages one run enters are strictly ascending in the order analyze,
\* decide/assemble, preprocess, validate intermediate, encode, validate output,
\* done (so none is entered twice); Done and Failed are only ever the last
\* entry; the run stands in the stage it entered last, and after Done or Failed
\* only the result and progress signals follow
C6_StageOrder ==
    /\ \A i, j \in 1..Len(trace) : i < j => StageRank(trace[i]) < StageRank(trace[j])
    /\ \A i \in 1..Len(trace) : trace[i] \in {"Done", "Failed"} => i = Len(trace)
    /\ InRun => (trace # << >> /\ trace[Len(trace)] = StageOf(pc))
    /\ pc = "done" => (trace # << >> /\ trace[Len(trace)] = "Done")
    /\ pc = "failed" => (trace # << >> /\ trace[Len(trace)] = "Failed")
    /\ (trace # << >> /\ trace[Len(trace)] \in {"Done", "Failed"}) =>
           pc \in {"done", "failed", "progress"}

\* C6 witness: a run that went through every stage to Done
C6_Witness ==
    /\ pc = "done"
    /\ trace = <<"Analyzing", "Deciding", "Preprocessing", "ValidatingIntermediate",
                 "Encoding", "ValidatingOutput", "Done">>

\* C7 (as claimed): a run fails at analysis only because its input is missing
C7_OnlyMissingInputFails ==
    (pc = "failed" /\ err.stage = "Analyzing") => err.reason = "InputMissing"

\* the probe of the current file has returned or raised
ProbeOver ==
    /\ Len(Passes) > 0
    /\ Passes[1] = "probe"
    /\ \/ pc = "analyzing" /\ pass > 1
       \/ pc \in {"deciding", "preprocessing", "validating_intermediate", "encoding",
                  "validating_output", "done"}
       \/ pc = "failed" /\ err.reason # "InputMissing"

\* C8 (as claimed): once the probe of an existing file has failed (no
\* measurement from it), the run is not failed at analysis and its FeatureSet
\* carries bitrate 192, sample rate 44100, 2 channels, and loudness -20 unless
\* the loudness pass measured it
C8_ProbeFailureDegrades ==
    (variant = "pro" /\ ProbeOver /\ "probe" \notin measured) =>
        /\ ~(pc = "failed" /\ err.stage = "Analyzing")
        /\ DOMAIN analysis = AnalysisFields(variant, mode)
        /\ analysis.bitrate = 192
        /\ analysis.sample_rate = 44100
        /\ analysis.channels = 2
        /\ ("loudness" \notin measured => analysis.loudness = -20)

\* C9 (as claimed): every engine call in flight was issued with a timeout
C9_EveryCallBounded ==
    CurrentCall # "none" => HasTimeout(variant, CurrentCall)

\* C10 (as claimed): the encoding call is in flight only with an intermediate
\* on disk of at least 1024 bytes
C10_EncodeOnlyValidIntermediate ==
    pc = "encoding" => (temp[idx].exists /\ temp[idx].size >= 1024)

\* C11: a run that has reached Done (and so emits file_processed) has its final
\* output on disk at or above the smallest output floor of the tools (8 KB),
\* which is above the intermediate floor; a missing or smaller output fails the
\* run. (bgm25's test mode writes a text file and is left aside.)
C11_DoneOnlyValidOutput ==
    (pc = "done" /\ ~test_mode) =>
        /\ out[idx].exists
        /\ out[idx].size >= 8 * 1024
        /\ out[idx].size > IntermediateFloor(variant)

\* C20: the payload of every error signal holds the file name, names the stage
\* that failed, holds at most TruncLen characters of the engine's error stream,
\* and nothing else of unbounded length.
C20_FailureCarriesContext ==
    (pc = "progress" /\ err # NoError) =>
        /\ message.name
        /\ message.stage # "none"
        /\ message.excerpt <= TruncLen(variant)
        /\ ~message.command

\* C18: whatever is added to the list, no two queued inputs have the same
\* scratch path.
C18_ScratchPathsDistinct ==
    \A i, j \in DOMAIN file_list :
        i # j => ScratchPath(variant, file_list[i]) # ScratchPath(variant, file_list[j])

\* C15: whatever the analysis dict holds, the quality score is between 0 and 100.
C15_ScoreInRange ==
    op \in {"score", "improved"} => (score >= 0 /\ score <= 100)

\* the dict with every bonus at its top tier: the sum reaches the cap
C15_Witness ==
    /\ op = "score"
    /\ fs.is_lossless /\ fs.sample_rate = 48000 /\ fs.loudness = -16
    /\ fs.dynamic_range = 16 /\ fs.noise_floor = -60
    /\ score = 100

\* C16: scoring a dict that differs from the one scored before in one field,
\* changed for the better (lossless, higher bit rate, higher sample rate,
\* loudness nearer -16, larger dynamic range, lower noise floor), never gives a
\* lower score.
C16_ScoreMonotone ==
    [][op' = "improved" => score' >= score]_allvars

\* dynamic range raised from 10 to 16 dB, the score went up by the full bonus
C16_Witness ==
    /\ op = "improved"
    /\ fs.dynamic_range = 16 /\ fs.loudness = -19 /\ ~fs.is_lossless
    /\ score = 50 + 5 + 5 + 10 + 10

\* C19: a video container gives a video with its audio replaced; otherwise a
\* lossless input gives flac, and a lossy one a lossy codec at 192k.
C19_FormatFromInput ==
    (op = "params" /\ variant \in {"pro", "vocal", "bgm27"}) =>
        /\ fs.format \in VideoFormats => params.is_video
        /\ (fs.format \notin VideoFormats /\ fs.is_lossless) => params.codec = "flac"
        /\ (fs.format \notin VideoFormats /\ ~fs.is_lossless) =>
              (params.codec # "flac" /\ params.bitrate = 192)

\* ---- the stages of a filter-graph text: "," links a stage to the next one of
\* its chain, ";" ends the chain; the labels before a stage's filter are its
\* input pins, the labels after it its output pins
NoStage ==
    [ins |-> << >>, outs |-> << >>, seen |-> FALSE, name |-> "", head |-> TRUE, sep |-> "end"]

RECURSIVE Stages(_, _)
Stages(text, cur) ==
    IF text = << >> THEN <<cur>>
    ELSE LET t == Head(text)
         IN CASE t.kind = "sep" ->
                   <<[cur EXCEPT !.sep = t.text]>>
                   \o Stages(Tail(text), [NoStage EXCEPT !.head = (t.text = ";")])
              [] t.kind = "label" /\ cur.seen ->
                   Stages(Tail(text), [cur EXCEPT !.outs = Append(@, t.text)])
              [] t.kind = "label" /\ ~cur.seen ->
                   Stages(Tail(text), [cur EXCEPT !.ins = Append(@, t.text)])
              [] t.kind = "filter" ->
                   Stages(Tail(text), [cur EXCEPT !.seen = TRUE, !.name = t.text])
              [] OTHER -> Stages(Tail(text), cur)

\* how many times label l stands in the pins of kind f ("ins" or "outs")
PinCount(st, f, l) ==
    Cardinality({<<k, m>> \in (DOMAIN st) \X (1..3) : m \in DOMAIN st[k][f] /\ st[k][f][m] = l})

PinLabels(st, f) == {st[k][f][m] : <<k, m>> \in {x \in (DOMAIN st) \X (1..3) : x[2] \in DOMAIN st[x[1]][f]}}

WellFormed(st) ==
    /\ \A k \in DOMAIN st : st[k].seen /\ Len(st[k].ins) <= 3 /\ Len(st[k].outs) <= 3
    \* every input pin was produced by an earlier stage
    /\ \A k \in DOMAIN st : \A m \in DOMAIN st[k].ins :
          \E j \in 1..(k - 1) : \E n \in DOMAIN st[j].outs : st[j].outs[n] = st[k].ins[m]
    \* only the first stage reads the primary input
    /\ \A k \in DOMAIN st : (st[k].head /\ st[k].ins = << >>) => k = 1
    \* a linked stage reads the unlabeled output of the stage before it
    /\ \A k \in DOMAIN st : st[k].sep = "," => st[k].outs = << >>
    \* every declared label is declared once and consumed once
    /\ \A l \in PinLabels(st, "ins") \cup PinLabels(st, "outs") :
          PinCount(st, "outs", l) = 1 /\ PinCount(st, "ins", l) = 1
    \* one open output, that of the last stage
    /\ {k \in DOMAIN st : st[k].outs = << >> /\ st[k].sep # ","} = {Len(st)}

\* C12: in every graph an assembler returns, each input pin was produced by an
\* earlier stage or is the primary input, each declared label is consumed
\* exactly once, and the graph ends in exactly one output.
C12_PinsWellFormed ==
    (op = "chain" /\ raised = "none") => WellFormed(Stages(chain, NoStage))

\* a graph with the reverb split: its mix stage consumes [dry] and [wet_out]
C12_Witness ==
    /\ op = "chain" /\ variant = "pro" /\ intent.reverb_amount = 3
    /\ \E k \in DOMAIN Stages(chain, NoStage) :
          Stages(chain, NoStage)[k].ins = <<"dry", "wet_out">>
    /\ WellFormed(Stages(chain, NoStage))

\* C13: the graph text handed to the preprocessing invocation holds no space
\* and no newline.
C13_NoWhitespace ==
    (op = "chain" /\ raised = "none") => \A k \in DOMAIN chain : chain[k].kind # "space"

\* the rank of a stage in the fixed order
FilterRank(stage) ==
    CASE stage = "noise" -> 1
      [] stage = "eq" -> 2
      [] stage = "compress" -> 3
      [] stage = "tone" -> 4
      [] stage = "reverb" -> 5
      [] stage = "loudnorm" -> 6
      [] stage = "limiter" -> 7
      [] OTHER -> 0

\* C14: the stages of the vocal tools' graph are in the order noise suppression,
\* EQ, compression, tone touch-up, reverb (only when enabled), loudness
\* normalization, limiter; the limiter is there, last, with fixed parameters.
C14_StageOrderLimiterLast ==
    (op = "chain" /\ variant \in {"pro", "vocal"}) =>
        /\ \A j, k \in DOMAIN filters :
              j < k => FilterRank(filters[j].stage) < FilterRank(filters[k].stage)
        /\ \A k \in DOMAIN filters : FilterRank(filters[k].stage) > 0
        /\ \A r \in {1, 2, 3, 4, 6, 7} : \E k \in DOMAIN filters : FilterRank(filters[k].stage) = r
        /\ filters[Len(filters)].stage = "limiter"
        /\ filters[Len(filters)].text = alimiter

\* C17: the assembler returns a graph for every settings and analysis dict,
\* unrecognized names and out-of-range amounts included.
C17_AssemblyTotal ==
    op = "chain" => raised = "none"

\* the tier a noise setting names: the keys of the tools' tables and the three
\* entries of the combo box
NoiseTier(name) ==
    CASE name \in {"low", "light"} -> 1
      [] name \in {"mid", "medium", "middle"} -> 2
      [] name \in {"high", "heavy"} -> 3
      [] OTHER -> 0

\* the strength of a graph's noise stage: the depth of afftdn's noise floor
\* (2.0), the cutoff of the high-pass (part_000)
NoiseStrength(v, text) ==
    IF v = "vocal" THEN 0 - text[1].args[1]
    ELSE CASE text[1].text = "highpass=f=100" -> 100
           [] text[1].text = "highpass=f=150" -> 150
           [] OTHER -> 200

\* the base level of a tier
BaseStrength(v, tier) ==
    IF v = "vocal" THEN 10 + 10 * tier ELSE 50 + 50 * tier

RelaxClean == 10

RelaxMedium == 5

\* C21: the noise stage's strength is the tier's base level, kept for a noise
\* floor above -45, lowered by the larger offset below -55 and by the smaller
\* offset from -55 to -45.
C21_NoiseStrength ==
    (op = "chain" /\ variant \in {"pro", "vocal"}) =>
        LET name == IF variant = "pro" THEN intent.noise_reduction ELSE intent.denoise_level
            base == BaseStrength(variant, NoiseTier(name))
            level == NoiseStrength(variant, filters[1].text)
        IN NoiseTier(name) > 0 =>
              /\ fs.noise_floor > -45 => level = base
              /\ fs.noise_floor < -55 => level = base - RelaxClean
              /\ (fs.noise_floor >= -55 /\ fs.noise_floor <= -45) => level = base - RelaxMedium

\* ten times the ratio of a compress stage of 2.5: the low band's ratio of the
\* three-band text, the ratio of the single-band text
CompressRatio(text) ==
    IF Len(text) > 1 THEN text[9].args[1]
    ELSE CASE text[1].text = "acompressor=threshold=-20dB:ratio=4:attack=10:release=100:knee=8dB:makeup=6dB" -> 40
           [] text[1].text = "acompressor=threshold=-18dB:ratio=3:attack=8:release=80:knee=6dB:makeup=4dB" -> 30
           [] OTHER -> 20

\* the compress stage of the graph
CompressStage ==
    filters[CHOOSE k \in DOMAIN filters : filters[k].stage = "compress"]

\* C22: in both compression paths of 2.5 the ratio is one of three tiers of the
\* dynamic range, stepping up at 15 and at 20 dB, a value at a threshold taking
\* the upper tier; 10 dB takes the lowest tier.
C22_RatioTiers ==
    (op = "chain" /\ variant = "bgm25" /\ intent.compress \in {"smart", "traditional"}) =>
        CompressRatio(CompressStage.text) =
            (IF fs.dynamic_range < 15 THEN 20 ELSE IF fs.dynamic_range < 20 THEN 30 ELSE 40)

\* C23: with the input's loudness measured at L, the normalization target is
\* at most L + 8 when L is more than 10 dB below the fixed target, and the
\* fixed target otherwise; L = -20 gives a target of at most -12.
C23_QuietInputBoostCapped ==
    (op = "loudnorm" /\ intent.compress = "smart") =>
        /\ fs.loudness < TARGET_LUFS - 10 => params.I - fs.loudness <= 8
        /\ fs.loudness >= TARGET_LUFS - 10 => params.I = TARGET_LUFS
        /\ fs.loudness = -20 => params.I <= -12

\* an input 14 dB below the target: the target follows it, 8 dB above
C23_Witness ==
    /\ op = "loudnorm" /\ intent.compress = "smart"
    /\ fs.loudness = -30 /\ params.I = -22

\* the analysis of the current file has returned its dict
AnalysisOver ==
    pc \in {"deciding", "preprocessing", "validating_intermediate", "encoding",
            "validating_output", "done"}

\* the current file's run ended in pass p of the analysis
RaisedIn(p) ==
    /\ pc = "failed" /\ err.stage = "Analyzing" /\ err.reason # "InputMissing"
    /\ pass \in DOMAIN Passes /\ Passes[pass] = p

\* C24: a level-envelope pass that delivered no measurement leaves dynamic
\* range 12 in the dict, a loudness pass that delivered none leaves loudness
\* -20, and neither ends the run.
C24_MeasurementDefaults ==
    variant \in {"pro", "bgm25"} =>
        /\ ~RaisedIn("dynamics") /\ ~RaisedIn("loudness")
        /\ (AnalysisOver /\ "dynamic_range" \in DOMAIN analysis /\ "dynamics" \notin measured) =>
              analysis.dynamic_range = 12
        /\ (AnalysisOver /\ "loudness" \in DOMAIN analysis /\ "loudness" \notin measured) =>
              analysis.loudness = -20

\* ten times the number a weight text stands for
Weight(text) ==
    CASE text = "amix=inputs=3:weights=1.2" -> 12
      [] text = "amix=inputs=3:weights=1.1" -> 11
      [] text \in {"1.0", "1"} -> 10
      [] text = "0.9" -> 9
      [] text = "0.8" -> 8
      [] OTHER -> 0

\* the weights option as the engine splits it at blanks, from token k on: a
\* word after a blank is one more weight, a word with no blank before it runs
\* into the weight before it, which is then no number (0)
RECURSIVE Weights(_, _, _)
Weights(text, k, acc) ==
    IF k > Len(text) \/ text[k].kind \notin {"space", "word"} THEN acc
    ELSE IF text[k].kind = "space" THEN Weights(text, k + 1, acc)
    ELSE IF text[k - 1].kind = "space"
    THEN Weights(text, k + 1, Append(acc, Weight(text[k].text)))
    ELSE Weights(text, k + 1, [acc EXCEPT ![Len(acc)] = 0])

\* where the three-band mix stands in a text (0: nowhere)
MixAt(text) ==
    IF \E k \in DOMAIN text : text[k].kind = "filter" /\ Weight(text[k].text) > 0
    THEN CHOOSE k \in DOMAIN text : text[k].kind = "filter" /\ Weight(text[k].text) > 0
    ELSE 0

MixWeights(text) == Weights(text, MixAt(text) + 1, <<Weight(text[MixAt(text)].text)>>)

\* C25: in the text handed to the engine the three-band mix reads
\* [low_out][mid_out][high_out] in that order and has three weights, each
\* smaller than the one before.
C25_MixWeightsKept ==
    (op = "chain" /\ raised = "none" /\ MixAt(chain) > 0) =>
        /\ \E k \in DOMAIN Stages(chain, NoStage) :
              Stages(chain, NoStage)[k].ins = <<"low_out", "mid_out", "high_out">>
        /\ Len(MixWeights(chain)) = 3
        /\ MixWeights(chain)[1] > MixWeights(chain)[2]
        /\ MixWeights(chain)[2] > MixWeights(chain)[3]
        /\ MixWeights(chain)[3] > 0

\* C26: the three measured values of the loudnorm stage are the integrated
\* loudness, the loudness range and the true peak the analysis measured on the
\* input.
C26_MeasuredTripleFromAnalysis ==
    (op = "chain" /\ variant = "pro") =>
        LET m == loudnorm_measured(fs)
            stage == filters[CHOOSE k \in DOMAIN filters : filters[k].stage = "loudnorm"]
        IN /\ stage.text[1].args = <<m.I.value, m.LRA.value>>
           /\ m.I.source = "loudness" /\ m.I.value = fs.loudness
           /\ m.LRA.source = "loudness_range" /\ m.LRA.source \in DOMAIN fs
           /\ m.TP.source = "true_peak" /\ m.TP.source \in DOMAIN fs

\* the stages of the graph that read label l
Readers(st, l) == {k \in DOMAIN st : \E m \in DOMAIN st[k].ins : st[k].ins[m] = l}

\* the wet level of the graph's reverb, in hundredths
WetLevel(text) == text[CHOOSE k \in DOMAIN text : text[k].text = "volume"].args[1]

\* the reverb of the graph is a two-way split, the wet branch echoed and
\* band-limited, the dry branch read by the mix alone
ReverbKeepsDry(st) ==
    /\ \E k \in DOMAIN st : st[k].name = "asplit=2" /\ st[k].outs = <<"dry", "wet">>
    /\ \E k \in DOMAIN st :
          /\ st[k].ins = <<"wet">> /\ st[k].name = "aecho=0.6:0.4"
          /\ st[k + 1].name = "highpass=f=180" /\ st[k + 2].name = "lowpass=f=8000"
          /\ st[k + 3].name = "volume" /\ st[k + 3].outs = <<"wet_out">>
    /\ \E k \in DOMAIN st :
          /\ st[k].name = "amix=inputs=2:normalize=0" /\ st[k].ins = <<"dry", "wet_out">>
          /\ Readers(st, "dry") = {k}

\* C27: amount 0 gives a graph with no reverb stage; amounts 1..5 give a graph
\* whose reverb is the amount's own preset, wetter than that of every smaller
\* amount, and keeps the dry signal.
C27_ReverbByAmount ==
    (op = "chain" /\ variant = "pro") =>
        LET n == intent.reverb_amount
            st == Stages(chain, NoStage)
        IN /\ n = 0 =>
                /\ \A k \in DOMAIN filters : filters[k].stage # "reverb"
                /\ \A k \in DOMAIN chain : chain[k].text \notin {"dry", "wet", "wet_out"}
           /\ n \in 1..5 =>
                /\ \E k \in DOMAIN filters : filters[k].stage = "reverb"
                /\ WetLevel(chain) = reverb_presets(n).wet
                /\ \A m \in 1..(n - 1) :
                      /\ reverb_presets(m).wet < WetLevel(chain)
                      /\ reverb_presets(m) # reverb_presets(n)
           /\ (\E k \in DOMAIN filters : filters[k].stage = "reverb") => ReverbKeepsDry(st)

\* the largest amount: wet level 0.28, above the four others
C27_Witness ==
    /\ op = "chain" /\ variant = "pro" /\ intent.reverb_amount = 5
    /\ WetLevel(chain) = 28
    /\ ReverbKeepsDry(Stages(chain, NoStage))

ResultKinds == {"file_processed", "error"}

\* the values of the progress signals so far, in order
ProgressValues == SelectSeq(events, LAMBDA e : e[1] = "progress")

KindCount(kind) == Cardinality({k \in DOMAIN events : events[k][1] = kind})

\* C29: all_finished is emitted at most once, after the result and the progress
\* signal of every file of the batch, and never by a worker that found its
\* abort flag set.
C29_AllFinishedOnceAfterAll ==
    /\ KindCount("all_finished") <= 1
    /\ KindCount("all_finished") = 1 =>
          /\ events[Len(events)] = <<"all_finished", 0>>
          /\ Len(events) = 2 * NumFiles + 1
          /\ \A f \in Files :
                /\ ResultCount(f) = 1
                /\ \E k \in DOMAIN events :
                      /\ events[k] \in {<<"file_processed", f>>, <<"error", f>>}
                      /\ events[k + 1][1] = "progress"
          /\ KindCount("log_terminated") = 0
          /\ pc = "finished"
    /\ (pc = "aborted" \/ KindCount("log_terminated") > 0) => KindCount("all_finished") = 0

\* stop() came during the last file: the flag is set but the loop never reads
\* it again, every file has its signals, and all_finished is emitted
C29_Witness ==
    /\ pc = "finished" /\ abort /\ stopAt.idx = NumFiles
    /\ events[Len(events)] = <<"all_finished", 0>>
    /\ \A f \in Files : ResultCount(f) = 1

\* C30: no file a run removes or writes (its scratch file, its output file) is
\* the input of that run or of another queued file.
C30_InputsUntouched ==
    \A i, j \in DOMAIN file_list : FullPath(file_list[j]) \notin Touched(variant, file_list[i])

====
